---- MODULE Spec2Model ----
(***************************************************************************)
(* Model of fall_audit_final_qwen_brain.py: the batch runner               *)
(* AIProcessingCore.process_rows running on a worker thread, and the Tk    *)
(* observer (AIProcessingGUI) that polls it, may request cancellation and  *)
(* opens the report.                                                       *)
(*                                                                         *)
(* A Python str is a sequence of tokens.  Row fields are sequences of      *)
(* one-character tokens; model output is a sequence of lexical tokens      *)
(* ("FENCE" for three backquotes, "json", "{", "}", white space, "T", "F"  *)
(* and "K" for a "key": "value" member, "DEEP" for a member whose value is *)
(* nested deeper than the interpreter's recursion limit, ",", and "x" for  *)
(* any other text).                                                        *)
(***************************************************************************)
EXTENDS Integers, Sequences, FiniteSets, TLC

\* Largest number of input records of a run.
MaxRows == 3

(***************************************************************************)
(* Text helpers                                                            *)
(***************************************************************************)

\* Characters str.strip() removes (the white space of the alphabet used).
WS == {" ", "\n"}

\* s[from..], empty when from is past the end.
Drop(s, from) == IF from > Len(s) THEN <<>> ELSE SubSeq(s, from, Len(s))

RECURSIVE LStrip(_)
LStrip(s) == IF s # <<>> /\ Head(s) \in WS THEN LStrip(Tail(s)) ELSE s

RECURSIVE RStrip(_)
RStrip(s) ==
    IF s # <<>> /\ s[Len(s)] \in WS THEN RStrip(SubSeq(s, 1, Len(s) - 1)) ELSE s

\* str.strip()
Strip(s) == RStrip(LStrip(s))

\* " ".join(row)
RECURSIVE Join(_)
Join(row) ==
    IF row = <<>> THEN <<>>
    ELSE IF Len(row) = 1 THEN row[1]
    ELSE row[1] \o <<" ">> \o Join(Tail(row))

\* prompt_text = " ".join(row).strip()
PromptText(row) == Strip(Join(row))

(***************************************************************************)
(* Verdicts: a Python str or a dict, kept in one record shape.             *)
(***************************************************************************)
StrV(s) == [kind |-> "str", str |-> s, dict |-> {}]
DictV(d) == [kind |-> "dict", str |-> <<>>, dict |-> d]

\* No value: the call ended with the exception e, which goes to the caller.
Raise(e) == [kind |-> "raise", str |-> <<e>>, dict |-> {}]

\* Prefix call_llm puts in front of stderr, and process_rows looks for.
ErrPrefix == "Error: LLM execution failed."

(***************************************************************************)
(* call_llm: the value returned for a finished subprocess.run              *)
(***************************************************************************)

\* A CompletedProcess: exit code, captured stdout and stderr.
Completed(rc, out, err) == [returncode |-> rc, stdout |-> out, stderr |-> err]

\* Lines 135-138: the tagged failure on a non-zero exit, else trimmed stdout.
call_llm(result) ==
    IF result.returncode # 0
    THEN <<ErrPrefix, " ">> \o result.stderr
    ELSE IF result.stdout # <<>> THEN Strip(result.stdout) ELSE <<>>

\* llm_output.startswith("Error: LLM execution failed.")
StartsWithErr(s) == s # <<>> /\ s[1] = ErrPrefix

(***************************************************************************)
(* parse_llm_output                                                        *)
(***************************************************************************)

\* First index >= i whose token is not white space (Len(s)+1 if none): \s*
RECURSIVE SkipWS(_, _)
SkipWS(s, i) == IF i <= Len(s) /\ s[i] \in WS THEN SkipWS(s, i + 1) ELSE i

\* "```json" starts at token i.
IsOpenAt(s, i) == i + 1 <= Len(s) /\ s[i] = "FENCE" /\ s[i + 1] = "json"

\* Token e is a "}" that \s*``` follows.
IsCloseAt(s, e) ==
    /\ e <= Len(s)
    /\ s[e] = "}"
    /\ SkipWS(s, e + 1) <= Len(s)
    /\ s[SkipWS(s, e + 1)] = "FENCE"

\* Index of the "{" the pattern would take after an opening fence at i.
BraceOf(s, i) == SkipWS(s, i + 2)

\* The "}" tokens that can end a match whose "{" is at b.
ClosersOf(s, b) == {e \in (b + 1)..Len(s) : IsCloseAt(s, e)}

\* The pattern ```json\s*(\{.*?\})\s*``` matches starting at token i.
MatchesAt(s, i) ==
    /\ IsOpenAt(s, i)
    /\ BraceOf(s, i) <= Len(s)
    /\ s[BraceOf(s, i)] = "{"
    /\ ClosersOf(s, BraceOf(s, i)) # {}

\* .*? is non-greedy: the match ends at the first possible "}".
Min(S) == CHOOSE x \in S : \A y \in S : x <= y
CloserOf(s, i) == Min(ClosersOf(s, BraceOf(s, i)))

\* re.findall: the captured groups of the non-overlapping matches, left to
\* right, scanning from token i.
RECURSIVE FindAll(_, _)
FindAll(s, i) ==
    IF i > Len(s) THEN <<>>
    ELSE IF MatchesAt(s, i)
         THEN <<SubSeq(s, BraceOf(s, i), CloserOf(s, i))>>
              \o FindAll(s, SkipWS(s, CloserOf(s, i) + 1) + 1)
         ELSE FindAll(s, i + 1)

\* Tokens standing for one "key": "value" member of a JSON object.
PairTok == {"T", "F", "K"}
PairOf(t) ==
    IF t = "T" THEN <<"falls", "true">>
    ELSE IF t = "F" THEN <<"falls", "false">>
    ELSE <<"other", "x">>

\* The tokens of s that are not white space.
RECURSIVE NoWS(_)
NoWS(s) ==
    IF s = <<>> THEN <<>>
    ELSE IF Head(s) \in WS THEN NoWS(Tail(s))
    ELSE <<Head(s)>> \o NoWS(Tail(s))

\* members ::= pair ("," pair)*
RECURSIVE IsMembers(_)
IsMembers(m) ==
    /\ m # <<>>
    /\ Head(m) \in PairTok
    /\ \/ Len(m) = 1
       \/ Len(m) >= 3 /\ m[2] = "," /\ IsMembers(Drop(m, 3))

\* json.loads succeeds on the captured text "{" ... "}".
JsonValid(t) ==
    LET m == NoWS(SubSeq(t, 2, Len(t) - 1))
    IN  m = <<>> \/ IsMembers(m)

\* The dict json.loads builds: for a repeated key the last member wins.
JsonDict(t) ==
    LET m == NoWS(SubSeq(t, 2, Len(t) - 1))
        P == {i \in 1..Len(m) : m[i] \in PairTok}
    IN  {PairOf(m[i]) : i \in {j \in P :
             \A k \in P : k > j => PairOf(m[k])[1] # PairOf(m[j])[1]}}

\* json.loads raises an error that is not a JSONDecodeError: the scanner
\* meets a member nested beyond the recursion limit (RecursionError) after a
\* well-formed beginning of the object.
JsonRaises(t) ==
    LET m == NoWS(SubSeq(t, 2, Len(t) - 1))
    IN  \E k \in 1..Len(m) :
           /\ m[k] = "DEEP"
           /\ k % 2 = 1
           /\ \A j \in 1..(k - 1) :
                 IF j % 2 = 1 THEN m[j] \in PairTok ELSE m[j] = ","

NoResponse == <<"Error: No response from model">>
NoJson == <<"No JSON found in response">>
ParseError == <<"Error parsing JSON: ", "JSONDecodeError">>

\* Lines 152-155: json.loads under the try.
json_loads(json_text) ==
    IF JsonRaises(json_text) THEN Raise("RecursionError")
    ELSE IF JsonValid(json_text) THEN DictV(JsonDict(json_text))
    ELSE StrV(ParseError)

\* parse_llm_output that uses the first match.
parse_llm_output_First(llm_output) ==
    IF llm_output = <<>> THEN StrV(NoResponse)
    ELSE LET matches == FindAll(llm_output, 1)
         IN  IF matches # <<>>
             THEN LET json_text == matches[1]
                  IN  json_loads(json_text)
             ELSE StrV(NoJson)

\* Lines 140-157.  Only json.JSONDecodeError is caught at line 154.
parse_llm_output(llm_output) ==
    IF llm_output = <<>> THEN StrV(NoResponse)
    ELSE LET matches == FindAll(llm_output, 1)
         IN  IF matches # <<>>
             THEN LET json_text == matches[Len(matches)]
                  IN  json_loads(json_text)
             ELSE StrV(NoJson)

\* Lines 177-188: the verdict process_rows stores for a finished invocation.
VerdictOf(result) ==
    LET llm_output == call_llm(result)
    IN  IF StartsWithErr(llm_output) THEN StrV(llm_output)
        ELSE parse_llm_output(llm_output)

(***************************************************************************)
(* Inputs of a run                                                         *)
(***************************************************************************)

\* Rows csv.reader can deliver: a blank line, fields that join to white
\* space only, two fields, a field with surrounding white space.
RowPool ==
    { <<>>,
      << <<>>, <<" ">> >>,
      << <<"a">>, <<"b">> >>,
      << <<" ", "a">>, <<"\n">> >> }

\* A fenced JSON answer, as the model prints it.
Fenced(body) == <<"FENCE", "json">> \o body \o <<"FENCE">>

\* What subprocess.run can hand back when the process was launched.
Outcomes ==
    { Completed(1, Fenced(<<"{", "T", "}">>), <<"x">>),
      Completed(0, <<>>, <<>>),
      Completed(0, <<" ", "\n">>, <<"x">>),
      Completed(0, <<"x">>, <<>>),
      Completed(0, <<" ">> \o Fenced(<<"{", "T", "}">>) \o <<"\n">>, <<>>),
      Completed(0, Fenced(<<"{", "T", "}">>) \o <<"x">>
                   \o Fenced(<<" ", "{", "F", "}", " ">>), <<>>),
      Completed(0, <<ErrPrefix, " ">> \o Fenced(<<"{", "T", "}">>), <<>>),
      Completed(0, Fenced(<<"{", "DEEP", "}">>), <<>>) }

(***************************************************************************)
(* State                                                                   *)
(***************************************************************************)
VARIABLES
    rows,              \* AIProcessingGUI.rows, the list handed to process_rows
    results,           \* AIProcessingCore.results
    rows_processed,    \* AIProcessingCore.rows_processed
    total_rows,        \* AIProcessingCore.total_rows
    cancel_requested,  \* AIProcessingCore.cancel_requested
    processing_done,   \* AIProcessingCore.processing_done
    pc,                \* where the worker thread is in run_core_logic
    i,                 \* number of rows the for loop has taken from rows
    pending,           \* the pair the worker is about to append
    invocations,       \* indices of the rows subprocess.run was called for
    llm_result,        \* call_llm's result: what subprocess.run returned last
    report,            \* the file at output_path
    poll,              \* update_progress: "first" call, "scheduled", "stopped"
    open_file_btn,     \* state of the Open Report button
    progress_win,      \* the progress window exists
    opened,            \* what os.startfile showed, once it was called
    cancel_len,        \* history: Len(results) when cancel_requested was set
    cancel_pc,         \* history: pc when cancel_requested was set
    fn,                \* a function applied on its own: "idle", then "done"
    arg,               \* its argument
    ret                \* its result

core == <<results, rows_processed, total_rows, processing_done>>
worker == <<pc, i, pending, invocations, llm_result, report>>
gui == <<poll, open_file_btn, progress_win, opened>>
cancel == <<cancel_requested, cancel_len, cancel_pc>>
pure == <<fn, arg, ret>>
vars == <<rows, core, worker, gui, cancel, pure>>

\* ("", ""), the pair appended for a row without text.
EmptyPair == <<<<>>, StrV(<<>>)>>

NoFile == [exists |-> FALSE, lines |-> <<>>]

\* No function is applied on its own during a run.
NoPure == fn = "none" /\ arg = <<>> /\ ret = <<>>

Init ==
    /\ NoPure
    /\ rows \in UNION {[1..n -> RowPool] : n \in 0..MaxRows}
    /\ llm_result = Completed(0, <<>>, <<>>)
    /\ results = <<>>
    /\ rows_processed = 0
    /\ total_rows = 0
    /\ cancel_requested = FALSE
    /\ processing_done = FALSE
    /\ pc = "total"
    /\ i = 0
    /\ pending = EmptyPair
    /\ invocations = <<>>
    /\ report = NoFile
    /\ poll = "first"
    /\ open_file_btn = "disabled"
    /\ progress_win = TRUE
    /\ opened = NoFile
    /\ cancel_len = -1
    /\ cancel_pc = "none"

(***************************************************************************)
(* The worker thread: run_core_logic -> process_rows -> save_results       *)
(***************************************************************************)

\* Line 163.
SetTotalRows ==
    /\ pc = "total"
    /\ total_rows' = Len(rows)
    /\ pc' = "reset"
    /\ UNCHANGED <<rows, pure, llm_result, results, rows_processed,
                   processing_done, i, pending, invocations, report, gui,
                   cancel>>

\* Line 164.
ResetRowsProcessed ==
    /\ pc = "reset"
    /\ rows_processed' = 0
    /\ pc' = "next"
    /\ UNCHANGED <<rows, pure, llm_result, results, total_rows,
                   processing_done, i, pending, invocations, report, gui,
                   cancel>>

\* NextRow with the cancel flag read only after the empty-row branch.
NextRow_CancelAfterEmpty ==
    /\ pc = "next"
    /\ IF i = Len(rows)
       THEN /\ pc' = "done"
            /\ UNCHANGED <<i, pending, invocations>>
       ELSE /\ i' = i + 1
            /\ IF cancel_requested /\ PromptText(rows[i + 1]) # <<>>
               THEN /\ pc' = "done"
                    /\ UNCHANGED <<pending, invocations>>
               ELSE IF PromptText(rows[i + 1]) = <<>>
               THEN /\ pc' = "append"
                    /\ pending' = EmptyPair
                    /\ UNCHANGED invocations
               ELSE /\ pc' = "call"
                    /\ invocations' = Append(invocations, i + 1)
                    /\ UNCHANGED pending
    /\ UNCHANGED <<rows, pure, llm_result, core, report, gui, cancel>>

\* NextRow with a return in place of the break: line 191 is not reached.
NextRow_ReturnOnCancel ==
    /\ pc = "next"
    /\ IF i = Len(rows)
       THEN /\ pc' = "done"
            /\ UNCHANGED <<i, pending, invocations>>
       ELSE /\ i' = i + 1
            /\ IF cancel_requested
               THEN /\ pc' = "save"
                    /\ UNCHANGED <<pending, invocations>>
               ELSE IF PromptText(rows[i + 1]) = <<>>
               THEN /\ pc' = "append"
                    /\ pending' = EmptyPair
                    /\ UNCHANGED invocations
               ELSE /\ pc' = "call"
                    /\ invocations' = Append(invocations, i + 1)
                    /\ UNCHANGED pending
    /\ UNCHANGED <<rows, pure, llm_result, core, report, gui, cancel>>

\* NextRow with a break in place of lines 173-175.
NextRow_BreakOnEmpty ==
    /\ pc = "next"
    /\ IF i = Len(rows)
       THEN /\ pc' = "done"
            /\ UNCHANGED <<i, pending, invocations>>
       ELSE /\ i' = i + 1
            /\ IF cancel_requested
               THEN /\ pc' = "done"
                    /\ UNCHANGED <<pending, invocations>>
               ELSE IF PromptText(rows[i + 1]) = <<>>
               THEN /\ pc' = "done"
                    /\ pending' = EmptyPair
                    /\ UNCHANGED invocations
               ELSE /\ pc' = "call"
                    /\ invocations' = Append(invocations, i + 1)
                    /\ UNCHANGED pending
    /\ UNCHANGED <<rows, pure, llm_result, core, report, gui, cancel>>

\* NextRow with a bare continue in place of lines 173-175.
NextRow_SkipEmpty ==
    /\ pc = "next"
    /\ IF i = Len(rows)
       THEN /\ pc' = "done"
            /\ UNCHANGED <<i, pending, invocations>>
       ELSE /\ i' = i + 1
            /\ IF cancel_requested
               THEN /\ pc' = "done"
                    /\ UNCHANGED <<pending, invocations>>
               ELSE IF PromptText(rows[i + 1]) = <<>>
               THEN /\ pc' = "next"
                    /\ pending' = EmptyPair
                    /\ UNCHANGED invocations
               ELSE /\ pc' = "call"
                    /\ invocations' = Append(invocations, i + 1)
                    /\ UNCHANGED pending
    /\ UNCHANGED <<rows, pure, llm_result, core, report, gui, cancel>>

\* NextRow without the test of line 171.
NextRow_InvokeOnEmpty ==
    /\ pc = "next"
    /\ IF i = Len(rows)
       THEN /\ pc' = "done"
            /\ UNCHANGED <<i, pending, invocations>>
       ELSE /\ i' = i + 1
            /\ IF cancel_requested
               THEN /\ pc' = "done"
                    /\ UNCHANGED <<pending, invocations>>
               ELSE IF FALSE
               THEN /\ pc' = "append"
                    /\ pending' = EmptyPair
                    /\ UNCHANGED invocations
               ELSE /\ pc' = "call"
                    /\ invocations' = Append(invocations, i + 1)
                    /\ UNCHANGED pending
    /\ UNCHANGED <<rows, pure, llm_result, core, report, gui, cancel>>

\* Lines 166-179: the loop takes the next row, reads the cancel flag, joins
\* the row, and either prepares ("", "") or starts the external process.
NextRow ==
    /\ pc = "next"
    /\ IF i = Len(rows)
       THEN /\ pc' = "done"
            /\ UNCHANGED <<i, pending, invocations>>
       ELSE /\ i' = i + 1
            /\ IF cancel_requested
               THEN /\ pc' = "done"
                    /\ UNCHANGED <<pending, invocations>>
               ELSE IF PromptText(rows[i + 1]) = <<>>
               THEN /\ pc' = "append"
                    /\ pending' = EmptyPair
                    /\ UNCHANGED invocations
               ELSE /\ pc' = "call"
                    /\ invocations' = Append(invocations, i + 1)
                    /\ UNCHANGED pending
    /\ UNCHANGED <<rows, pure, llm_result, core, report, gui, cancel>>

\* LlmReturns with the cancel flag read after the call: the record that was
\* in flight is dropped.
LlmReturns_DropOnCancel ==
    /\ pc = "call"
    /\ IF cancel_requested
       THEN /\ pc' = "done"
            /\ UNCHANGED <<pending, llm_result>>
       ELSE \E result \in Outcomes :
               /\ llm_result' = result
               /\ IF VerdictOf(result).kind = "raise"
                  THEN /\ pc' = "crashed"
                       /\ UNCHANGED pending
                  ELSE /\ pending' = <<PromptText(rows[i]), VerdictOf(result)>>
                       /\ pc' = "append"
    /\ UNCHANGED <<rows, pure, core, i, invocations, report, gui, cancel>>

\* Number of elements of s equal to x.
RECURSIVE Count(_, _)
Count(s, x) ==
    IF s = <<>> THEN 0
    ELSE (IF Head(s) = x THEN 1 ELSE 0) + Count(Tail(s), x)

\* LlmReturns with one retry after a non-zero exit.
LlmReturns_RetryOnce ==
    /\ pc = "call"
    /\ \E result \in Outcomes :
          /\ llm_result' = result
          /\ IF result.returncode # 0 /\ Count(invocations, i) < 2
             THEN /\ invocations' = Append(invocations, i)
                  /\ pc' = "call"
                  /\ UNCHANGED pending
             ELSE IF VerdictOf(result).kind = "raise"
             THEN /\ pc' = "crashed"
                  /\ UNCHANGED <<pending, invocations>>
             ELSE /\ pending' = <<PromptText(rows[i]), VerdictOf(result)>>
                  /\ pc' = "append"
                  /\ UNCHANGED invocations
    /\ UNCHANGED <<rows, pure, core, i, report, gui, cancel>>

\* Lines 127-138 and 179-188: subprocess.run returns; the verdict is the
\* tagged failure or what parse_llm_output makes of the output.  An exception
\* of parse_llm_output is not caught and ends the thread.
LlmReturns ==
    /\ pc = "call"
    /\ \E result \in Outcomes :
          /\ llm_result' = result
          /\ IF VerdictOf(result).kind = "raise"
             THEN /\ pc' = "crashed"
                  /\ UNCHANGED pending
             ELSE /\ pending' = <<PromptText(rows[i]), VerdictOf(result)>>
                  /\ pc' = "append"
    /\ UNCHANGED <<rows, pure, core, i, invocations, report, gui, cancel>>

\* Line 127: subprocess.run raises (the executable cannot be launched, the
\* argument is too long for the system, the captured output cannot be
\* decoded); neither call_llm, process_rows nor run_core_logic catches it, so
\* the thread ends there.
LlmRaises ==
    /\ pc = "call"
    /\ pc' = "crashed"
    /\ UNCHANGED <<rows, pure, llm_result, core, i, pending, invocations,
                   report, gui, cancel>>

\* AppendResult without line 173: a row without text is counted only.
AppendResult_SkipEmpty ==
    /\ pc = "append"
    /\ results' = IF pending = EmptyPair THEN results
                  ELSE Append(results, pending)
    /\ pc' = "count"
    /\ UNCHANGED <<rows, pure, llm_result, rows_processed, total_rows,
                   processing_done, i, pending, invocations, report, gui,
                   cancel>>

\* Lines 173, 183, 188.
AppendResult ==
    /\ pc = "append"
    /\ results' = Append(results, pending)
    /\ pc' = "count"
    /\ UNCHANGED <<rows, pure, llm_result, rows_processed, total_rows,
                   processing_done, i, pending, invocations, report, gui,
                   cancel>>

\* CountRow without the continue of line 185: a failed invocation is counted
\* at line 184 and again at line 189.
CountRow_TwiceOnError ==
    /\ pc = "count"
    /\ rows_processed' =
          rows_processed + (IF StartsWithErr(pending[2].str) THEN 2 ELSE 1)
    /\ pc' = "next"
    /\ UNCHANGED <<rows, pure, llm_result, results, total_rows,
                   processing_done, i, pending, invocations, report, gui,
                   cancel>>

\* Lines 174, 184, 189.
CountRow ==
    /\ pc = "count"
    /\ rows_processed' = rows_processed + 1
    /\ pc' = "next"
    /\ UNCHANGED <<rows, pure, llm_result, results, total_rows,
                   processing_done, i, pending, invocations, report, gui,
                   cancel>>

\* Line 191.
SetProcessingDone ==
    /\ pc = "done"
    /\ processing_done' = TRUE
    /\ pc' = "save"
    /\ UNCHANGED <<rows, pure, llm_result, results, rows_processed,
                   total_rows, i, pending, invocations, report, gui, cancel>>

\* FinalAnswer that always writes the whole verdict.
FinalAnswer_Whole(response) == response

\* Lines 208-213: the second column of a report row.
FinalAnswer(response) ==
    IF response.kind = "dict" /\ \E kv \in response.dict : kv[1] = "falls"
    THEN StrV(<<(CHOOSE kv \in response.dict : kv[1] = "falls")[2]>>)
    ELSE response

Header == <<"Progres note", "Falls Detected?">>

\* ReportLines that leaves out the pairs without text.
ReportLines_SkipEmpty(res) ==
    LET HasText(pair) == pair[1] # <<>>
        kept == SelectSeq(res, HasText)
    IN  <<Header>> \o
        [k \in 1..Len(kept) |-> <<kept[k][1], FinalAnswer(kept[k][2])>>]

\* Lines 205-215: the rows save_results writes.
ReportLines(res) ==
    <<Header>> \o [k \in 1..Len(res) |-> <<res[k][1], FinalAnswer(res[k][2])>>]

\* Line 202: open(output_path, "w") creates or truncates the file.
SaveOpen ==
    /\ pc = "save"
    /\ report' = [exists |-> TRUE, lines |-> <<>>]
    /\ pc' = "write"
    /\ UNCHANGED <<rows, pure, llm_result, core, i, pending, invocations, gui,
                   cancel>>

\* Lines 203-215: the rows are written and the file is closed.
SaveWrite ==
    /\ pc = "write"
    /\ report' = [exists |-> TRUE, lines |-> ReportLines(results)]
    /\ pc' = "finished"
    /\ UNCHANGED <<rows, pure, llm_result, core, i, pending, invocations, gui,
                   cancel>>

Worker ==
    \/ SetTotalRows
    \/ ResetRowsProcessed
    \/ NextRow
    \/ LlmReturns
    \/ LlmRaises
    \/ AppendResult
    \/ CountRow
    \/ SetProcessingDone
    \/ SaveOpen
    \/ SaveWrite

(***************************************************************************)
(* The observer: the Tk event loop                                         *)
(***************************************************************************)

\* update_progress without "or self.core.cancel_requested" at line 448.
update_progress_CountOnly ==
    /\ poll \in {"first", "scheduled"}
    /\ progress_win
    /\ IF processing_done /\ rows_processed = Len(rows)
       THEN /\ open_file_btn' = "normal"
            /\ poll' = "stopped"
       ELSE /\ poll' = "scheduled"
            /\ UNCHANGED open_file_btn
    /\ UNCHANGED <<rows, pure, core, worker, progress_win, opened, cancel>>

\* Lines 427-455.
update_progress ==
    /\ poll \in {"first", "scheduled"}
    /\ progress_win
    /\ IF processing_done
          /\ (rows_processed = Len(rows) \/ cancel_requested)
       THEN /\ open_file_btn' = "normal"
            /\ poll' = "stopped"
       ELSE /\ poll' = "scheduled"
            /\ UNCHANGED open_file_btn
    /\ UNCHANGED <<rows, pure, core, worker, progress_win, opened, cancel>>

\* request_cancel that also marks the run as done.
request_cancel_MarksDone ==
    /\ progress_win
    /\ poll # "first"
    /\ \E yes \in BOOLEAN :
          /\ cancel_requested' = (cancel_requested \/ yes)
          /\ processing_done' = (processing_done \/ yes)
          /\ IF yes /\ ~cancel_requested
             THEN cancel_len' = Len(results) /\ cancel_pc' = pc
             ELSE UNCHANGED <<cancel_len, cancel_pc>>
    /\ UNCHANGED <<rows, pure, results, rows_processed, total_rows, worker,
                   gui>>

\* Lines 411-416: the Cancel button; yes is the answer to the question.
request_cancel ==
    /\ progress_win
    /\ poll # "first"
    /\ \E yes \in BOOLEAN :
          /\ cancel_requested' = (cancel_requested \/ yes)
          /\ IF yes /\ ~cancel_requested
             THEN cancel_len' = Len(results) /\ cancel_pc' = pc
             ELSE UNCHANGED <<cancel_len, cancel_pc>>
    /\ UNCHANGED <<rows, pure, core, worker, gui>>

\* Lines 457-467: the Open Report button.
open_output_file ==
    /\ progress_win
    /\ open_file_btn = "normal"
    /\ IF report.exists
       THEN /\ opened' = report
            /\ progress_win' = FALSE
       ELSE UNCHANGED <<opened, progress_win>>
    /\ UNCHANGED <<rows, pure, core, worker, poll, open_file_btn, cancel>>

Observer ==
    \/ update_progress
    \/ request_cancel
    \/ open_output_file

Next == Worker \/ Observer

Spec == Init /\ [][Next]_vars

\* Largest number of input records of a run whose polling is followed to
\* its end.
MaxPollRows == 1

PollInit == Init /\ Len(rows) <= MaxPollRows

\* The worker thread is scheduled, every launched process returns, and the
\* Tk timer fires the callback update_progress registered with after().
PollSpec ==
    /\ PollInit
    /\ [][Next]_vars
    /\ WF_vars(Worker)
    /\ WF_vars(update_progress)

(***************************************************************************)
(* The functions of AIProcessingCore applied on their own                  *)
(***************************************************************************)

run == <<rows, core, worker, gui, cancel>>

\* A core as __init__ leaves it, no rows read, no thread, no window.
AtRest ==
    /\ rows = <<>>
    /\ results = <<>>
    /\ rows_processed = 0
    /\ total_rows = 0
    /\ cancel_requested = FALSE
    /\ processing_done = FALSE
    /\ pc = "unstarted"
    /\ i = 0
    /\ pending = EmptyPair
    /\ invocations = <<>>
    /\ llm_result = Completed(0, <<>>, <<>>)
    /\ report = NoFile
    /\ poll = "stopped"
    /\ open_file_btn = "disabled"
    /\ progress_win = FALSE
    /\ opened = NoFile
    /\ cancel_len = -1
    /\ cancel_pc = "none"

\* The texts of at most n tokens over an alphabet.
Texts(alphabet, n) == UNION {[1..k -> alphabet] : k \in 0..n}

\* Longest model output given to parse_llm_output on its own.
MaxTokens == 6

ParseAlphabet == {"FENCE", "json", "{", "}", " ", "T", ",", "DEEP"}

ParseInit ==
    /\ AtRest
    /\ fn = "idle"
    /\ arg \in Texts(ParseAlphabet, MaxTokens)
    /\ ret = <<>>

\* parse_llm_output(arg)
ApplyParse ==
    /\ fn = "idle"
    /\ fn' = "done"
    /\ ret' = parse_llm_output(arg)
    /\ UNCHANGED <<arg, run>>

ParseSpec == ParseInit /\ [][ApplyParse]_vars

\* Largest number of fenced blocks in a model output.
MaxBlocks == 2

\* A fenced JSON block with the text in front of it: the fence tagged json,
\* white space, a brace-delimited text, the same white space, the fence.
BlockText(b) ==
    b.sep \o <<"FENCE", "json">> \o b.ws \o <<"{">> \o b.inner \o <<"}">>
          \o b.ws \o <<"FENCE">>

\* Text between blocks: none, plain text, a fenced block that holds no
\* brace-delimited text.
SepPool == { <<>>, <<"x", "}">>, <<"FENCE", "json", "x", "FENCE">> }

\* What stands between the braces of a block: objects that parse, that do
\* not, and one with braces of its own.
InnerPool ==
    { <<>>, <<"T">>, <<"F">>, <<"T", ",">>, <<"K", ",", "F">>,
      <<"{", "T", "}">> }

BlockPool == [sep : SepPool, ws : {<<>>, <<" ", "\n">>}, inner : InnerPool]

RECURSIVE BlocksText(_)
BlocksText(bs) ==
    IF bs = <<>> THEN <<>> ELSE BlockText(Head(bs)) \o BlocksText(Tail(bs))

BlocksInit ==
    /\ AtRest
    /\ fn = "idle"
    /\ arg \in [blocks : UNION {[1..n -> BlockPool] : n \in 1..MaxBlocks},
                tail : {<<>>, <<"x">>}]
    /\ ret = <<>>

\* parse_llm_output of the text made of the blocks of arg
ApplyParseBlocks ==
    /\ fn = "idle"
    /\ fn' = "done"
    /\ ret' = parse_llm_output(BlocksText(arg.blocks) \o arg.tail)
    /\ UNCHANGED <<arg, run>>

BlocksSpec == BlocksInit /\ [][ApplyParseBlocks]_vars

\* The worker thread is scheduled and every launched process returns.
FairSpec == Spec /\ WF_vars(Worker)

(***************************************************************************)
(* Properties                                                              *)
(***************************************************************************)

\* The worker has left process_rows through line 191.
Ended == pc \in {"save", "write", "finished"}

\* C1 (as claimed): in every state an observer can see, the length of the
\* result list equals rows_processed.
C1_LenEqualsCount == Len(results) = rows_processed

\* C1 (amended): the length of the result list equals rows_processed in every
\* state except between the append of a pair and the increment that counts
\* it, where the list is exactly one longer.
C1_LenTracksCount ==
    IF pc = "count"
    THEN Len(results) = rows_processed + 1
    ELSE Len(results) = rows_processed

\* The second pair is appended and not yet counted.
C1_Witness == pc = "count" /\ Len(results) = 2 /\ rows_processed = 1

\* C2: rows_processed never decreases in a step, and always
\* 0 <= rows_processed <= total_rows.
C2_CountMonotoneBounded ==
    /\ [](0 <= rows_processed /\ rows_processed <= total_rows)
    /\ [][rows_processed' >= rows_processed]_vars

\* Every row of a run over at least two rows has been counted.
C2_Witness == rows_processed = total_rows /\ total_rows >= 2 /\ Ended

\* C3: if cancel_requested is set when record k is appended and counted and
\* record k+1 is not yet taken (k < N), no further pair is ever appended, no
\* later record is invoked, and the run ends with rows_processed = k,
\* processing_done and k results, short of total_rows (Cancelled).
C3_CancelAtBoundary ==
    (cancel_pc = "next" /\ cancel_len < Len(rows)) =>
        /\ Len(results) = cancel_len
        /\ rows_processed = cancel_len
        /\ \A n \in 1..Len(invocations) : invocations[n] <= cancel_len
        /\ pc \in {"next", "done", "save", "write", "finished"}
        /\ Ended => /\ processing_done
                    /\ cancel_requested
                    /\ rows_processed < total_rows

\* A run over three records, cancelled after the second, has ended.
C3_Witness ==
    /\ cancel_pc = "next"
    /\ cancel_len = 2
    /\ Len(rows) = 3
    /\ pc = "finished"
    /\ Len(invocations) >= 1

\* C4: the worker reads cancel_requested only when it takes the next row:
\* there the loop stops, and anywhere else the record in progress is still
\* appended and counted, so that at most one pair is appended after
\* cancel_requested became true.
C4_CooperativeCancel ==
    /\ [](cancel_len >= 0 =>
            /\ Len(results) <= cancel_len + 1
            /\ Ended =>
                 /\ rows_processed = Len(results)
                 /\ Len(results) =
                      IF cancel_pc \in {"call", "append"}
                      THEN cancel_len + 1 ELSE cancel_len)
    /\ [][(cancel_requested /\ pc = "next" /\ pc' # pc) => pc' = "done"]_vars
    /\ [][(cancel_requested /\ pc = "call" /\ pc' = "append") =>
              pending'[1] = PromptText(rows[i])]_vars

\* Cancellation arrived while the second record's process was running, and
\* the run has ended with two of three records.
C4_Witness ==
    /\ cancel_pc = "call"
    /\ cancel_len = 1
    /\ Ended
    /\ Len(results) = 2
    /\ Len(rows) = 3

\* C5: processing_done never returns to false; it becomes true only in the
\* step after the loop, when every record the loop attempted is appended and
\* counted; and it is true whenever the worker has left process_rows,
\* through exhaustion of the rows or through the break.
C5_DoneSetOnce ==
    /\ [][processing_done => processing_done']_vars
    /\ [][(~processing_done /\ processing_done') =>
             /\ pc = "done"
             /\ Len(results) = rows_processed
             /\ \A n \in 1..Len(invocations) : invocations[n] <= rows_processed
             /\ (rows_processed = Len(rows) \/ cancel_requested)]_vars
    /\ [](Ended => processing_done)
    /\ [](processing_done => Ended)

\* A cancelled run has set the flag.
C5_Witness ==
    /\ processing_done
    /\ cancel_requested
    /\ rows_processed = 1
    /\ Len(rows) = 3

\* C6 (as claimed): a failed invocation, a failure to launch the process
\* included, never aborts the batch: the worker is never stopped by it, and
\* when an invocation ends the worker has a pair to append for that record.
C6_FailureNeverAborts ==
    /\ [](pc # "crashed")
    /\ [][(pc = "call" /\ pc' # pc) =>
             (pc' = "append" /\ pending'[1] = PromptText(rows[i]))]_vars

\* C7: whenever processing_done is true, rows_processed = total_rows or
\* cancel_requested is true.
C7_EarlyEndOnlyByCancel ==
    processing_done => (rows_processed = total_rows \/ cancel_requested)

\* A run has ended early.
C7_Witness == processing_done /\ rows_processed < total_rows

\* C8 (as claimed): every run eventually has processing_done true, whatever
\* happens to the single records, when the worker is scheduled and every
\* invocation comes back.
C8_RunTerminates == <>processing_done

\* C9: the text of result k is the joined, trimmed text of input record k,
\* for every k up to the length of the result list, which never exceeds the
\* number of input records.
C9_ResultsAligned ==
    /\ Len(results) <= Len(rows)
    /\ \A k \in 1..Len(results) : results[k][1] = PromptText(rows[k])

\* Three results, of which the middle one belongs to a row without text.
C9_Witness ==
    /\ Len(results) = 3
    /\ results[1][1] # <<>>
    /\ results[2][1] = <<>>
    /\ results[3][1] # results[1][1]

\* C10: subprocess.run is never called for a record whose joined text is
\* empty; the pair stored for such a record is ("", ""); and every record
\* the loop has passed, the empty ones included, is appended and counted.
C10_EmptyRowNotInvoked ==
    /\ \A n \in 1..Len(invocations) : PromptText(rows[invocations[n]]) # <<>>
    /\ \A k \in 1..Len(results) :
          PromptText(rows[k]) = <<>> => results[k] = EmptyPair
    /\ pc = "next" => (rows_processed = i /\ Len(results) = i)

\* The loop has passed a record without text at position 2 and invoked the
\* process for the records around it.
C10_Witness ==
    /\ Len(results) = 3
    /\ PromptText(rows[2]) = <<>>
    /\ invocations = <<1, 3>>
    /\ pc = "next"

(***************************************************************************)
(* build_prompt                                                            *)
(***************************************************************************)

\* Columns by which the lines of the f-string are indented (lines 107-115).
Indent == 12

Spaces(n) == [k \in 1..n |-> " "]

SystemMarker == "<|im_start|>system"
UserMarker == "<|im_start|>user"
AssistantMarker == "<|im_start|>assistant"

\* Lines 106-115: the f-string with prompt_text put in, before dedent.  The
\* fixed sentences are one token each.
RawPrompt(prompt_text) ==
    <<"\n">>
    \o Spaces(Indent) \o <<SystemMarker, "\n">>
    \o Spaces(Indent) \o <<"You are a helpful ...", "<|im_end|>", "\n", "\n">>
    \o Spaces(Indent) \o <<UserMarker, "\n">>
    \o Spaces(Indent) \o <<"Please check ...", "\n">>
    \o Spaces(Indent) \o <<"Your response ...", "\n">>
    \o Spaces(Indent) \o <<"Here is the note: ">> \o prompt_text \o <<"\n">>
    \o Spaces(Indent) \o <<"Example reply format: ...", "<|im_end|>", "\n",
                           "\n">>
    \o <<"\n">>
    \o Spaces(Indent) \o <<AssistantMarker>>

\* str.split("\n")
RECURSIVE SplitLines(_)
SplitLines(s) ==
    IF \A k \in 1..Len(s) : s[k] # "\n" THEN <<s>>
    ELSE LET n == Min({k \in 1..Len(s) : s[k] = "\n"})
         IN  <<SubSeq(s, 1, n - 1)>> \o SplitLines(Drop(s, n + 1))

\* "\n".join(lines)
RECURSIVE JoinLines(_)
JoinLines(lines) ==
    IF Len(lines) = 1 THEN lines[1]
    ELSE lines[1] \o <<"\n">> \o JoinLines(Tail(lines))

\* A line of blanks only (the empty line included).
IsBlankLine(line) == \A k \in 1..Len(line) : line[k] = " "

\* Number of blanks a line starts with.
RECURSIVE LeadingBlanks(_)
LeadingBlanks(line) ==
    IF line # <<>> /\ Head(line) = " " THEN 1 + LeadingBlanks(Tail(line))
    ELSE 0

\* textwrap.dedent: lines of blanks become empty, and the margin common to
\* the other lines is taken from each of them.
dedent(text) ==
    LET lines == SplitLines(text)
        full == {k \in 1..Len(lines) : ~IsBlankLine(lines[k])}
        margin == IF full = {} THEN 0
                  ELSE Min({LeadingBlanks(lines[k]) : k \in full})
    IN  JoinLines([k \in 1..Len(lines) |->
                      IF k \in full THEN Drop(lines[k], margin + 1)
                      ELSE <<>>])

\* Lines 102-116.
build_prompt(prompt_text) == dedent(RawPrompt(prompt_text))

\* Longest note given to build_prompt on its own.
MaxText == 5

PromptAlphabet == {"a", "b", " ", "\n"}

\* The texts process_rows passes: not empty, and trimmed at line 170.
PromptInit ==
    /\ AtRest
    /\ fn = "idle"
    /\ arg \in {t \in Texts(PromptAlphabet, MaxText) :
                   t # <<>> /\ Strip(t) = t}
    /\ ret = <<>>

\* build_prompt(arg)
ApplyBuildPrompt ==
    /\ fn = "idle"
    /\ fn' = "done"
    /\ ret' = build_prompt(arg)
    /\ UNCHANGED <<arg, run>>

PromptSpec == PromptInit /\ [][ApplyBuildPrompt]_vars

(***************************************************************************)
(* save_results on its own                                                 *)
(***************************************************************************)

\* Longest result list given to save_results on its own.
MaxPairs == 2

\* Verdicts of every shape: dicts with and without the falls key, the empty
\* dict, a diagnostic, the empty string.
VerdictPool ==
    { DictV({<<"falls", "true">>}),
      DictV({<<"falls", "false">>, <<"other", "x">>}),
      DictV({<<"other", "x">>}),
      DictV({}),
      StrV(NoJson),
      StrV(<<>>) }

PairPool == {<<"a">>, <<"b">>} \X VerdictPool

SinkInit ==
    /\ AtRest
    /\ fn = "idle"
    /\ arg \in UNION {[1..n -> PairPool] : n \in 0..MaxPairs}
    /\ ret = <<>>

\* save_results with self.results = arg: ret is what the file holds.
ApplySave ==
    /\ fn = "idle"
    /\ fn' = "done"
    /\ ret' = ReportLines(arg)
    /\ UNCHANGED <<arg, run>>

SinkSpec == SinkInit /\ [][ApplySave]_vars

\* C11: subprocess.run is called at most once for a record, exactly once for
\* every record with text that has a result, and the number of calls never
\* exceeds the number of records with text the loop has taken.
C11_NoRetry ==
    /\ \A m, n \in 1..Len(invocations) :
          invocations[m] = invocations[n] => m = n
    /\ \A k \in 1..Len(results) :
          PromptText(rows[k]) # <<>> => Count(invocations, k) = 1
    /\ Len(invocations) <=
          Cardinality({k \in 1..i : PromptText(rows[k]) # <<>>})

\* The first invocation exited non-zero, its failure is stored, and the loop
\* went on to invoke the process for the second record.
C11_Witness ==
    /\ Len(results) >= 1
    /\ StartsWithErr(results[1][2].str)
    /\ invocations = <<1, 2>>

\* C12 (as claimed): for a record with text, the verdict to store is the
\* tagged failure carrying stderr when the process exited non-zero, and
\* parse_llm_output of the trimmed stdout when it exited with code 0.
C12_VerdictByExitCode ==
    (pc \in {"append", "count"} /\ PromptText(rows[i]) # <<>>) =>
        /\ pending[2] =
              IF llm_result.returncode # 0
              THEN StrV(<<ErrPrefix, " ">> \o llm_result.stderr)
              ELSE parse_llm_output(Strip(llm_result.stdout))
        /\ pc = "count" => results[i] = pending

\* C13 (as claimed): when the run has ended and the report is written, it has
\* one data row per input record, in input order.
C13_ReportRowPerInput ==
    pc = "finished" =>
        /\ report.exists
        /\ Len(report.lines) = Len(rows) + 1
        /\ \A k \in 1..Len(rows) : report.lines[k + 1][1] = PromptText(rows[k])

\* C13 (amended): when the run has ended and the report is written, it has
\* one data row per processed record, that is for the first rows_processed
\* input records, in input order, repeated records included; these are all
\* the input records unless cancellation was requested.
C13_ReportRowPerProcessed ==
    pc = "finished" =>
        /\ report.exists
        /\ report.lines[1] = Header
        /\ Len(report.lines) = rows_processed + 1
        /\ rows_processed <= Len(rows)
        /\ \A k \in 1..rows_processed :
              report.lines[k + 1][1] = PromptText(rows[k])
        /\ ~cancel_requested => rows_processed = Len(rows)

\* The report of a run over three records, the first two alike and the
\* second without successor in the report because of cancellation.
C13_Witness ==
    /\ pc = "finished"
    /\ Len(rows) = 3
    /\ rows[1] = rows[2]
    /\ PromptText(rows[1]) # <<>>
    /\ Len(report.lines) = 3

\* C14: a step of the observer (the worker stays where it is) leaves
\* rows_processed, total_rows, processing_done and the result list alone, and
\* a step of the worker (it moves on) leaves cancel_requested alone.
C14_FieldOwnership ==
    [][/\ pc' = pc =>
            UNCHANGED <<rows_processed, total_rows, processing_done, results>>
       /\ pc' # pc =>
            UNCHANGED cancel_requested]_vars

\* The observer has set its flag and the worker has written each of its
\* fields.
C14_Witness ==
    /\ cancel_requested
    /\ processing_done
    /\ total_rows = 2
    /\ rows_processed = 1
    /\ Len(results) = 1

HasBlock(s) ==
    \E a, b, e, f \in 1..Len(s) :
        /\ a + 1 < b /\ b < e /\ e < f
        /\ s[a] = "FENCE" /\ s[a + 1] = "json"
        /\ \A j \in (a + 2)..(b - 1) : s[j] \in WS
        /\ s[b] = "{"
        /\ s[e] = "}"
        /\ \A j \in (e + 1)..(f - 1) : s[j] \in WS
        /\ s[f] = "FENCE"

\* C16 (as claimed): parse_llm_output returns a verdict for every text and
\* lets no error out: the no-response diagnostic for the empty text, exactly
\* "No JSON found in response" for a text without fenced JSON block, and for
\* a text with one either a dict or the parse-error diagnostic.
C16_ParseTotal ==
    fn = "done" =>
        /\ ret.kind \in {"str", "dict"}
        /\ arg = <<>> => ret = StrV(NoResponse)
        /\ (arg # <<>> /\ ~HasBlock(arg)) => ret = StrV(NoJson)
        /\ (HasBlock(arg) /\ ret.kind = "str") => ret = StrV(ParseError)
        /\ ret.kind = "dict" => HasBlock(arg)

\* C16 without its first sentence, kept to show what of it does hold.
C16_ParseCases ==
    fn = "done" =>
        /\ arg = <<>> => ret = StrV(NoResponse)
        /\ (arg # <<>> /\ ~HasBlock(arg)) => ret = StrV(NoJson)
        /\ HasBlock(arg) =>
              (ret.kind \in {"dict", "raise"} \/ ret = StrV(ParseError))

\* C17: save_results writes the header row, then one row per result pair in
\* list order: the text, and the value of the falls key when the verdict is
\* a dict that has this key, the whole verdict otherwise.
C17_ReportRows ==
    fn = "done" =>
        /\ Len(ret) = Len(arg) + 1
        /\ ret[1] = <<"Progres note", "Falls Detected?">>
        /\ \A k \in 1..Len(arg) :
              /\ ret[k + 1][1] = arg[k][1]
              /\ \A v \in {"true", "false", "x"} :
                    (/\ arg[k][2].kind = "dict"
                     /\ <<"falls", v>> \in arg[k][2].dict)
                        => ret[k + 1][2] = StrV(<<v>>)
              /\ (arg[k][2].kind = "dict"
                     /\ \A kv \in arg[k][2].dict : kv[1] # "falls")
                    => ret[k + 1][2] = arg[k][2]
              /\ arg[k][2].kind = "str" => ret[k + 1][2] = arg[k][2]

\* The example: a verdict with the falls key, then a diagnostic.
C17_Witness ==
    /\ fn = "done"
    /\ arg = << <<<<"a">>, DictV({<<"falls", "true">>})>>,
                <<<<"b">>, StrV(NoJson)>> >>
    /\ ret = << Header,
                <<<<"a">>, StrV(<<"true">>)>>,
                <<<<"b">>, StrV(NoJson)>> >>

\* t occurs in s as it stands.
Contains(s, t) ==
    \E k \in 0..(Len(s) - Len(t)) : SubSeq(s, k + 1, k + Len(t)) = t

\* C18 (as claimed): for every non-empty text, the prompt build_prompt
\* returns contains the text verbatim, and the system, user and assistant
\* markers in this order.
C18_PromptHoldsText ==
    fn = "done" =>
        /\ Contains(ret, arg)
        /\ \E p, q, r \in 1..Len(ret) :
              /\ p < q /\ q < r
              /\ ret[p] = SystemMarker
              /\ ret[q] = UserMarker
              /\ ret[r] = AssistantMarker

\* C19 (as claimed): whenever the observer has declared Done and enabled Open
\* Report, the worker has finished writing the report with all results.
C19_DoneImpliesReportWritten ==
    open_file_btn = "normal" =>
        /\ pc = "finished"
        /\ report = [exists |-> TRUE, lines |-> ReportLines(results)]

\* C20: the observer declares Done (Open Report enabled, no further poll
\* scheduled) only when processing_done is true; a poll that finds
\* processing_done true declares Done; with processing_done true and Done
\* not yet declared a poll is pending and the window is there, so that Done
\* is declared eventually; and nothing is scheduled after that.  This holds
\* for completed and cancelled runs and for runs over no records.
C20_PollDeclaresDone ==
    /\ [](open_file_btn = "normal" => processing_done)
    /\ [](open_file_btn = "normal" <=> poll = "stopped")
    /\ []((processing_done /\ poll # "stopped") => progress_win)
    /\ [][(processing_done /\ poll' # poll) =>
             (poll' = "stopped" /\ open_file_btn' = "normal")]_vars
    /\ [][poll = "stopped" => poll' = "stopped"]_vars
    /\ processing_done ~> (poll = "stopped" /\ open_file_btn = "normal")

\* Done is declared for a cancelled run that stopped short of its record.
C20_Witness ==
    /\ open_file_btn = "normal"
    /\ poll = "stopped"
    /\ cancel_requested
    /\ rows_processed < Len(rows)

====
